---- MODULE Spec2Model ----
(***************************************************************************)
(* Model of src/main.py (Moodle course crawler): the folder-tree           *)
(* extractor, the activity resource resolver, the assignment metadata      *)
(* extractor, the collision-safe download naming and the course walk.      *)
(*                                                                         *)
(* Strings are sequences of tokens, so that prefix tests, substring tests, *)
(* strip(), lower(), split() and concatenation are computed, not assumed.  *)
(* A page is a DOM in document (pre-order) numbering: node i has a parent  *)
(* index smaller than i (0 is the document itself).                        *)
(***************************************************************************)
EXTENDS Integers, Sequences, FiniteSets, TLC

\* ------------------------------------------------------------------------
\*  Bounds of the exploration
\* ------------------------------------------------------------------------
MaxNodes == 4

MaxLinks == 3

MaxTreeNodes == 6

MaxTreeLinks == 2

MaxBlocks == 3

MaxUrls == 3

MaxSections == 2

MaxActs == 3

\* ------------------------------------------------------------------------
\*  Token strings
\* ------------------------------------------------------------------------
None == <<"<None>">>

Marker == "pluginfile.php"

MOODLE_BASE == <<"https:", "moodle.elct.lnu.edu.ua">>

\* Python truthiness of an optional string: None and "" are falsy.
Falsy(s) == s = None \/ s = <<>>

\* str.startswith("/")
StartsWithSlash(s) == Len(s) > 0 /\ s[1] = "/"

\* str.startswith("http")
StartsWithHttp(s) == Len(s) > 0 /\ s[1] \in {"https:", "http:"}

\* str.startswith("#")
StartsWithHash(s) == Len(s) > 0 /\ s[1] = "#"

\* "pluginfile.php" in s
HasMarker(s) == \E i \in 1..Len(s) : s[i] = Marker

\* The label phrases of the portal are written in Latin transliteration:
\*   "pochatok pryimannia", "termin splyvaie"            main.py 237, 239
\*   "dostupno z", "dostupne z", "available from"         main.py 254
\*   "termin zdachi", "due date"                          main.py 256
\*   "ostannia mozhlyvist zdachi", "cut-off"              main.py 258
\*   "sproba nomer", "status roboty", "status otsinennia",
\*   "zalyshylosia chasu", "vostannie zmineno"            main.py 272-280
\*   "otsinka"                                            main.py 311
\*   "vebinary"                                           main.py 579
LowerTok(t) ==
    CASE t = "JavaScript:"         -> "javascript:"
      [] t = "Pochatok pryimannia" -> "pochatok pryimannia"
      [] t = "Termin splyvaie"     -> "termin splyvaie"
      [] t = "Available from"      -> "available from"
      [] t = "Termin zdachi"       -> "termin zdachi"
      [] t = "Sproba nomer"        -> "sproba nomer"
      [] t = "Status roboty"       -> "status roboty"
      [] t = "Otsinka"             -> "otsinka"
      [] t = "Vidhuk"              -> "vidhuk"
      [] t = "P"                   -> "p"
      [] t = "Vebinary"            -> "vebinary"
      [] OTHER                     -> t

\* str.lower()
Lower(s) == [i \in 1..Len(s) |-> LowerTok(s[i])]

\* s.lower().startswith("javascript:")
StartsWithJavascript(s) == Len(s) > 0 /\ Lower(s)[1] = "javascript:"

RECURSIVE LStrip(_)
LStrip(s) == IF Len(s) > 0 /\ s[1] = " " THEN LStrip(Tail(s)) ELSE s

RECURSIVE RStrip(_)
RStrip(s) ==
    IF Len(s) > 0 /\ s[Len(s)] = " " THEN RStrip(SubSeq(s, 1, Len(s) - 1)) ELSE s

\* str.strip()
Strip(s) == RStrip(LStrip(s))

Min0(S) == CHOOSE x \in S : \A y \in S : x <= y

\* x in list
InSeq(x, s) == \E i \in 1..Len(s) : s[i] = x

\* the append without the membership test
AppendNew_Unchecked(s, x) == Append(s, x)

\* if x not in list: list.append(x)
AppendNew(s, x) == IF InSeq(x, s) THEN s ELSE Append(s, x)

\* if href.startswith("/"): href = MOODLE_BASE + href
Resolve(h) == IF StartsWithSlash(h) THEN MOODLE_BASE \o h ELSE h

\* ------------------------------------------------------------------------
\*  Markup: a DOM in document order
\* ------------------------------------------------------------------------
\* Node kinds: the class (or tag) the selectors of the program look at.
\*   "foldertree"  .foldertree          "ygtvitem"      div.ygtvitem
\*   "ygtvchildren" .ygtvchildren       "div"           any other container
\*   "a"           <a href=attr>        "media"         iframe/img/source/
\*                                                      video/audio src=attr
\*   "resourceworkaround", "activityinstance", "region-main": the three
\*   fallback regions.
\* bad: processing this tree item raises inside recurse().
Node(p, k, h, b) == [parent |-> p, kind |-> k, attr |-> h, bad |-> b]

LeafKinds == {"a", "media"}

RegionKinds == {"resourceworkaround", "activityinstance", "region-main"}

Indices(dom) == [i \in 1..Len(dom) |-> i]

\* d is a proper descendant of a (a = 0 is the document)
RECURSIVE IsAncestor(_, _, _)
IsAncestor(dom, a, d) ==
    /\ d > 0
    /\ \/ dom[d].parent = a
       \/ dom[d].parent > 0 /\ IsAncestor(dom, a, dom[d].parent)

\* node.select("a[href*='pluginfile.php']"): descendant anchors, document order
SelectMarkerAnchors(dom, n) ==
    LET Test(j) == /\ IsAncestor(dom, n, j)
                   /\ dom[j].kind = "a"
                   /\ dom[j].attr # None
                   /\ HasMarker(dom[j].attr)
    IN SelectSeq(Indices(dom), Test)

\* node.select(".ygtvchildren > .ygtvitem"): every descendant item whose
\* parent element is a child group, at any depth below node
SelectChildItems(dom, n) ==
    LET Test(j) == /\ IsAncestor(dom, n, j)
                   /\ dom[j].kind = "ygtvitem"
                   /\ dom[j].parent > 0
                   /\ dom[dom[j].parent].kind = "ygtvchildren"
    IN SelectSeq(Indices(dom), Test)

\* soup.select(".foldertree")
SelectFolderTrees(dom) ==
    LET Test(j) == dom[j].kind = "foldertree"
    IN SelectSeq(Indices(dom), Test)

\* tree.find_all("div", class_="ygtvitem", recursive=False)
DirectItems(dom, t) ==
    LET Test(j) == dom[j].parent = t /\ dom[j].kind = "ygtvitem"
    IN SelectSeq(Indices(dom), Test)

\* tree.select(".ygtvitem")
AllItems(dom, t) ==
    LET Test(j) == IsAncestor(dom, t, j) /\ dom[j].kind = "ygtvitem"
    IN SelectSeq(Indices(dom), Test)

\* ------------------------------------------------------------------------
\*  parse_folder_tree
\* ------------------------------------------------------------------------
\* The walk state: files collected so far, whether an exception is
\* propagating, and the tree items recurse() was entered for, in order.
WalkInit == [files |-> <<>>, raised |-> FALSE, visits |-> <<>>]

\* the anchor loop of recurse()
RECURSIVE CollectAnchors(_, _, _)
CollectAnchors(dom, idx, files) ==
    IF idx = <<>> THEN files
    ELSE LET href == dom[Head(idx)].attr
         IN IF Falsy(href)
            THEN CollectAnchors(dom, Tail(idx), files)
            ELSE CollectAnchors(dom, Tail(idx), AppendNew(files, Resolve(href)))

RECURSIVE recurse(_, _, _)
RECURSIVE RecurseEach(_, _, _)
recurse(dom, n, st) ==
    IF st.raised THEN st
    ELSE IF dom[n].bad
    THEN [st EXCEPT !.raised = TRUE, !.visits = Append(@, n)]
    ELSE RecurseEach(dom, SelectChildItems(dom, n),
                     [st EXCEPT !.files = CollectAnchors(dom, SelectMarkerAnchors(dom, n), @),
                                !.visits = Append(@, n)])

\* for child in ...: recurse(child)     /    for r in roots: recurse(r)
RecurseEach(dom, idx, st) ==
    IF idx = <<>> \/ st.raised THEN st
    ELSE RecurseEach(dom, Tail(idx), recurse(dom, Head(idx), st))

TreeRoots(dom, t) ==
    IF DirectItems(dom, t) # <<>> THEN DirectItems(dom, t) ELSE AllItems(dom, t)

RECURSIVE ForEachTree(_, _, _)
ForEachTree(dom, trees, st) ==
    IF trees = <<>> \/ st.raised THEN st
    ELSE ForEachTree(dom, Tail(trees), RecurseEach(dom, TreeRoots(dom, Head(trees)), st))

\* Result: the files list, or raised = TRUE when an exception leaves the
\* function (the list is then lost with the frame).
parse_folder_tree(dom) == ForEachTree(dom, SelectFolderTrees(dom), WalkInit)

\* ------------------------------------------------------------------------
\*  collect_activity_files
\* ------------------------------------------------------------------------
\* add_if_pluginfile(raw)
add_if_pluginfile(urls, raw) ==
    IF Falsy(raw) THEN urls
    ELSE LET u == Strip(raw)
         IN IF u = <<>> \/ StartsWithHash(u) \/ StartsWithJavascript(u) THEN urls
            ELSE IF HasMarker(Resolve(u)) THEN AppendNew(urls, Resolve(u))
            ELSE urls

RECURSIVE AddEach(_, _, _)
AddEach(dom, idx, urls) ==
    IF idx = <<>> THEN urls
    ELSE AddEach(dom, Tail(idx), add_if_pluginfile(urls, dom[Head(idx)].attr))

\* soup.find_all("a")  /  soup.find_all(["iframe","img","source","video","audio"])
FindAllKind(dom, k) ==
    LET Test(j) == dom[j].kind = k
    IN SelectSeq(Indices(dom), Test)

\* soup.select(".resourceworkaround a, .activityinstance a, .region-main a")
SelectCandidates(dom) ==
    LET Test(j) == /\ dom[j].kind = "a"
                   /\ \E r \in 1..Len(dom) :
                         dom[r].kind \in RegionKinds /\ IsAncestor(dom, r, j)
    IN SelectSeq(Indices(dom), Test)

\* the candidate loop without the placeholder test
RECURSIVE FirstUsable_NoPlaceholderTest(_, _)
FirstUsable_NoPlaceholderTest(dom, idx) ==
    IF idx = <<>> THEN <<>>
    ELSE LET href == dom[Head(idx)].attr
         IN IF Falsy(href) \/ Strip(href) = <<>>
            THEN FirstUsable_NoPlaceholderTest(dom, Tail(idx))
            ELSE <<Resolve(Strip(href))>>

\* the candidate loop: first usable anchor, else nothing
RECURSIVE FirstUsable(_, _)
FirstUsable(dom, idx) ==
    IF idx = <<>> THEN <<>>
    ELSE LET href == dom[Head(idx)].attr
         IN IF Falsy(href) THEN FirstUsable(dom, Tail(idx))
            ELSE IF Strip(href) = <<>> \/ StartsWithHash(Strip(href))
                    \/ StartsWithJavascript(Strip(href))
            THEN FirstUsable(dom, Tail(idx))
            ELSE <<Resolve(Strip(href))>>

\* Steps after a successful page.goto: the URL list, the return statement
\* taken, and the tree items the folder walk entered.
ResolveFromPage(dom, activity_url) ==
    LET links == AddEach(dom, FindAllKind(dom, "media"),
                         AddEach(dom, FindAllKind(dom, "a"), <<>>))
        cand  == FirstUsable(dom, SelectCandidates(dom))
        rest  == IF links # <<>> THEN [urls |-> links, strategy |-> "links"]
                 ELSE IF cand # <<>> THEN [urls |-> cand, strategy |-> "fallback"]
                 ELSE [urls |-> <<activity_url>>, strategy |-> "self"]
    IN IF SelectFolderTrees(dom) = <<>>
       THEN [urls |-> rest.urls, strategy |-> rest.strategy, visits |-> <<>>]
       ELSE LET tree == parse_folder_tree(dom)
            IN IF ~tree.raised /\ tree.files # <<>>
               THEN [urls |-> tree.files, strategy |-> "foldertree", visits |-> tree.visits]
               ELSE [urls |-> rest.urls, strategy |-> rest.strategy, visits |-> tree.visits]

\* the guard of the first return
Unreachable(activity_url) ==
    Falsy(activity_url) \/ activity_url = <<"#">> \/ ~StartsWithHttp(activity_url)

\* the two early returns in the opposite order
collect_activity_files_MarkerFirst(dom, activity_url, gotoOk) ==
    IF HasMarker(activity_url)
    THEN [urls |-> <<activity_url>>, navs |-> 0, strategy |-> "direct", visits |-> <<>>]
    ELSE IF Unreachable(activity_url)
    THEN [urls |-> <<>>, navs |-> 0, strategy |-> "unreachable", visits |-> <<>>]
    ELSE IF ~gotoOk
    THEN [urls |-> <<>>, navs |-> 1, strategy |-> "gotofail", visits |-> <<>>]
    ELSE LET r == ResolveFromPage(dom, activity_url)
         IN [urls |-> r.urls, navs |-> 1, strategy |-> r.strategy, visits |-> r.visits]

\* Result: the URL list, the number of page.goto calls made, the return
\* statement taken and the tree items entered by the folder walk.
collect_activity_files(dom, activity_url, gotoOk) ==
    IF Unreachable(activity_url)
    THEN [urls |-> <<>>, navs |-> 0, strategy |-> "unreachable", visits |-> <<>>]
    ELSE IF HasMarker(activity_url)
    THEN [urls |-> <<activity_url>>, navs |-> 0, strategy |-> "direct", visits |-> <<>>]
    ELSE IF ~gotoOk
    THEN [urls |-> <<>>, navs |-> 1, strategy |-> "gotofail", visits |-> <<>>]
    ELSE LET r == ResolveFromPage(dom, activity_url)
         IN [urls |-> r.urls, navs |-> 1, strategy |-> r.strategy, visits |-> r.visits]

\* parse_assign_page, attachment collection: every marker anchor of the page
RECURSIVE AssignFileLoop(_, _, _)
AssignFileLoop(dom, idx, files) ==
    IF idx = <<>> THEN files
    ELSE LET href == dom[Head(idx)].attr
         IN IF Falsy(href)
            THEN AssignFileLoop(dom, Tail(idx), files)
            ELSE AssignFileLoop(dom, Tail(idx), AppendNew(files, Resolve(href)))

\* meta.get("files") or [] : {} when the page could not be opened
parse_assign_files(dom, gotoOk) ==
    IF ~gotoOk THEN <<>>
    ELSE AssignFileLoop(dom, SelectMarkerAnchors(dom, 0), <<>>)

\* ------------------------------------------------------------------------
\*  parse_assign_page: dates, status, attachments, grade
\* ------------------------------------------------------------------------
\* The assignment page is the sequence of the blocks the function looks at:
\*   "adate"  a direct child div of .activity-dates: th is the text of its
\*            <strong> (None without one), td the text after it
\*   "ddiv"   a div inside .dates: td is its text
\*   "srow"   a row of .submissionstatustable: th, td the cell texts
\*   "a"      an anchor with the resource-file marker: td is its href
\*   "frow"   a row of .feedbacktable: th, td the cell texts
\* A missing cell is None. Cell texts are what get_text(" ", strip=True) gives.
Block(k, th, td) == [kind |-> k, th |-> th, td |-> td]

BlocksOf(page, k) ==
    LET Test(b) == b.kind = k
    IN SelectSeq(page, Test)

\* phrase in text
Contains(text, phrase) == \E i \in 1..Len(text) : text[i] = phrase

TextOf(cell) == IF cell = None THEN <<>> ELSE cell

\* row.get_text(" ", strip=True)
RowText(b) == TextOf(b.th) \o TextOf(b.td)

\* the first position where sub occurs in s as a contiguous run, 0 if none
FindSub(s, sub) ==
    LET hits == { i \in 1..(Len(s) - Len(sub) + 1) : SubSeq(s, i, i + Len(sub) - 1) = sub }
    IN IF hits = {} THEN 0 ELSE CHOOSE i \in hits : \A j \in hits : i <= j

\* s.replace(sub, "", 1)
ReplaceFirst(s, sub) ==
    IF sub = <<>> \/ FindSub(s, sub) = 0 THEN s
    ELSE SubSeq(s, 1, FindSub(s, sub) - 1) \o SubSeq(s, FindSub(s, sub) + Len(sub), Len(s))

\* s.strip(" :")
RECURSIVE StripColon(_)
StripColon(s) ==
    IF Len(s) > 0 /\ s[1] \in {" ", ":"} THEN StripColon(Tail(s))
    ELSE IF Len(s) > 0 /\ s[Len(s)] \in {" ", ":"} THEN StripColon(SubSeq(s, 1, Len(s) - 1))
    ELSE s

MetaInit ==
    [start_at |-> None, due_at |-> None, cutoff_at |-> None,
     attempt |-> None, submission_status |-> None, grading_status |-> None,
     time_remaining |-> None, last_modified |-> None,
     files |-> <<>>, grade_text |-> None, grade_raw |-> None, grade_max |-> None]

\* one pass of the loop over the .activity-dates divs
ActivityDateStep(m, b) ==
    IF b.th = None THEN m
    ELSE LET label     == Lower(b.th)
             date_text == StripColon(ReplaceFirst(RowText(b), b.th))
         IN IF date_text = <<>> THEN m
            ELSE IF Contains(label, "pochatok pryimannia") /\ m.start_at = None
            THEN [m EXCEPT !.start_at = date_text]
            ELSE IF Contains(label, "termin splyvaie") /\ m.due_at = None
            THEN [m EXCEPT !.due_at = date_text]
            ELSE m

\* one pass of the loop over date_rows
DateRowStep(m, b) ==
    LET text_raw == RowText(b)
        text     == Lower(text_raw)
        m1 == IF (Contains(text, "dostupno z") \/ Contains(text, "dostupne z")
                    \/ Contains(text, "available from")) /\ m.start_at = None
              THEN [m EXCEPT !.start_at = text_raw] ELSE m
        m2 == IF (Contains(text, "termin zdachi") \/ Contains(text, "due date"))
                    /\ m1.due_at = None
              THEN [m1 EXCEPT !.due_at = text_raw] ELSE m1
    IN IF (Contains(text, "ostannia mozhlyvist zdachi") \/ Contains(text, "cut-off"))
            /\ m2.cutoff_at = None
       THEN [m2 EXCEPT !.cutoff_at = text_raw] ELSE m2

\* one pass of the loop over the status table rows
StatusRowStep(m, b) ==
    IF b.th = None \/ b.td = None THEN m
    ELSE LET label == Lower(b.th)
         IN IF Contains(label, "sproba nomer") THEN [m EXCEPT !.attempt = b.td]
            ELSE IF Contains(label, "status roboty") THEN [m EXCEPT !.submission_status = b.td]
            ELSE IF Contains(label, "status otsinennia") THEN [m EXCEPT !.grading_status = b.td]
            ELSE IF Contains(label, "zalyshylosia chasu") THEN [m EXCEPT !.time_remaining = b.td]
            ELSE IF Contains(label, "vostannie zmineno") THEN [m EXCEPT !.last_modified = b.td]
            ELSE m

\* the attachment loop over the marker anchors
RECURSIVE AttachmentLoop(_, _)
AttachmentLoop(anchors, files) ==
    IF anchors = <<>> THEN files
    ELSE LET href == Head(anchors).td
         IN IF Falsy(href) THEN AttachmentLoop(Tail(anchors), files)
            ELSE AttachmentLoop(Tail(anchors), AppendNew(files, Resolve(href)))

\* grade_text.split("/")
RECURSIVE SplitSlash(_, _)
SplitSlash(s, cur) ==
    IF s = <<>> THEN <<cur>>
    ELSE IF Head(s) = "/" THEN <<cur>> \o SplitSlash(Tail(s), <<>>)
    ELSE SplitSlash(Tail(s), Append(cur, Head(s)))

\* str.strip(): blanks and non-breaking spaces at both ends
RECURSIVE StripWs(_)
StripWs(s) ==
    IF Len(s) > 0 /\ s[1] \in {" ", "nbsp"} THEN StripWs(Tail(s))
    ELSE IF Len(s) > 0 /\ s[Len(s)] \in {" ", "nbsp"} THEN StripWs(SubSeq(s, 1, Len(s) - 1))
    ELSE s

\* t.strip().replace(nbsp, " ").replace(" ", "").replace(",", ".")
NumberChars(s) ==
    LET Keep(c) == c \notin {" ", "nbsp"}
        kept == SelectSeq(StripWs(s), Keep)
    IN [i \in 1..Len(kept) |-> IF kept[i] = "," THEN "." ELSE kept[i]]

Digits == {"0", "1", "2", "3", "4", "5", "6", "7", "8", "9"}

DigitVal(c) ==
    CASE c = "0" -> 0 [] c = "1" -> 1 [] c = "2" -> 2 [] c = "3" -> 3 [] c = "4" -> 4
      [] c = "5" -> 5 [] c = "6" -> 6 [] c = "7" -> 7 [] c = "8" -> 8 [] c = "9" -> 9

RECURSIVE IntVal(_)
IntVal(ds) == IF ds = <<>> THEN 0 ELSE IntVal(SubSeq(ds, 1, Len(ds) - 1)) * 10 + DigitVal(ds[Len(ds)])

\* the value of the fraction digits in thousandths
FracMilli(ds) ==
    (IF Len(ds) >= 1 THEN DigitVal(ds[1]) * 100 ELSE 0)
  + (IF Len(ds) >= 2 THEN DigitVal(ds[2]) * 10 ELSE 0)
  + (IF Len(ds) >= 3 THEN DigitVal(ds[3]) ELSE 0)

\* a float, held in thousandths
Float(m) == <<"float", m>>

\* float(t) for decimal literals: a number in thousandths, or None for the
\* ValueError. A literal is digits with at most one point and at least one digit.
ParseFloat(t) ==
    LET dots == { i \in 1..Len(t) : t[i] = "." }
        allOk == \A i \in 1..Len(t) : t[i] \in Digits \cup {"."}
        nDigits == Cardinality({ i \in 1..Len(t) : t[i] \in Digits })
    IN IF ~allOk \/ Cardinality(dots) > 1 \/ nDigits = 0 THEN None
       ELSE IF dots = {} THEN Float(IntVal(t) * 1000)
       ELSE LET d == CHOOSE i \in dots : TRUE
            IN Float(IntVal(SubSeq(t, 1, d - 1)) * 1000
                       + FracMilli(SubSeq(t, d + 1, Len(t))))

_normalize_number(text) == ParseFloat(NumberChars(text))

\* the grade pair taken from the first two of any number of parts
GradeStep_AtLeastTwoParts(m, b) ==
    LET grade_text == b.td
        parts == SplitSlash(grade_text, <<>>)
    IN IF Len(parts) >= 2
       THEN [m EXCEPT !.grade_text = grade_text,
                      !.grade_raw = _normalize_number(parts[1]),
                      !.grade_max = _normalize_number(parts[2])]
       ELSE [m EXCEPT !.grade_text = grade_text]

\* the body of the feedback loop for a row that has both cells and the label
GradeStep(m, b) ==
    LET grade_text == b.td
        parts == SplitSlash(grade_text, <<>>)
    IN IF Len(parts) = 2
       THEN [m EXCEPT !.grade_text = grade_text,
                      !.grade_raw = _normalize_number(parts[1]),
                      !.grade_max = _normalize_number(parts[2])]
       ELSE [m EXCEPT !.grade_text = grade_text]

\* the row is one the feedback loop acts (and stops) on
IsGradeRow(b) == b.th # None /\ b.td # None /\ Contains(Lower(b.th), "otsinka")

\* ------------------------------------------------------------------------
\*  File names and downloads
\* ------------------------------------------------------------------------
\* File names are sequences of characters. "xD0", "xB0" stand for the Latin-1
\* characters U+00D0, U+00B0 (the two bytes of the UTF-8 form of U+0430),
\* "U+0430" and "U+20AC" for the characters of those code points.

\* urllib.parse.unquote
Unquote(s) == [i \in 1..Len(s) |-> IF s[i] = "%20" THEN " " ELSE s[i]]

\* the position of the first "/" after the scheme, 0 if none
FirstSlash(url) ==
    LET hits == { i \in 2..Len(url) : url[i] = "/" }
    IN IF hits = {} THEN 0 ELSE Min0(hits)

\* urlparse raises ValueError ("Invalid IPv6 URL") when the network location
\* has one square bracket without the other
UrlparseRaises(url) ==
    LET last   == IF FirstSlash(url) = 0 THEN Len(url) ELSE FirstSlash(url) - 1
        netloc == SubSeq(url, 2, last)
    IN InSeq("[", netloc) # InSeq("]", netloc)

\* parsed.path
UrlPath(url) == IF FirstSlash(url) = 0 THEN <<>> ELSE SubSeq(url, FirstSlash(url), Len(url))

\* Path(p).name: the last component, trailing slashes ignored
RECURSIVE DropTrailingSlashes(_)
DropTrailingSlashes(p) ==
    IF Len(p) > 0 /\ p[Len(p)] = "/" THEN DropTrailingSlashes(SubSeq(p, 1, Len(p) - 1)) ELSE p

LastComponent(p, sep) ==
    LET hits == { i \in 1..Len(p) : p[i] = sep }
    IN IF hits = {} THEN p
       ELSE SubSeq(p, (CHOOSE i \in hits : \A j \in hits : j <= i) + 1, Len(p))

PathName(p) == LastComponent(DropTrailingSlashes(p), "/")

\* extract_filename_from_url, for a URL urlparse accepts
extract_filename_from_url(url) ==
    IF PathName(Unquote(UrlPath(url))) = <<>> THEN <<"f", "i", "l", "e">>
    ELSE PathName(Unquote(UrlPath(url)))

ArtifactChars == {"xD0", "xD1", "xE2", "U+20AC"}

\* characters that Latin-1 cannot encode
BeyondLatin1 == {"U+20AC", "U+0430"}

\* bytes.decode("utf-8") of the Latin-1 bytes: the pair D0 B0 is U+0430,
\* ASCII stays, anything else is a decoding error (None)
RECURSIVE DecodeUtf8(_)
DecodeUtf8(bs) ==
    IF bs = <<>> THEN <<>>
    ELSE IF Head(bs) \in {"xD0", "xD1", "xE2", "xB0"}
    THEN IF Len(bs) >= 2 /\ bs[1] = "xD0" /\ bs[2] = "xB0"
            /\ DecodeUtf8(SubSeq(bs, 3, Len(bs))) # None
         THEN <<"U+0430">> \o DecodeUtf8(SubSeq(bs, 3, Len(bs)))
         ELSE None
    ELSE IF DecodeUtf8(Tail(bs)) = None THEN None
    ELSE <<Head(bs)>> \o DecodeUtf8(Tail(bs))

fix_encoding(filename) ==
    IF filename = <<>> THEN filename
    ELSE IF \E i \in 1..Len(filename) : filename[i] \in ArtifactChars
    THEN IF (\E i \in 1..Len(filename) : filename[i] \in BeyondLatin1)
            \/ DecodeUtf8(filename) = None
         THEN filename
         ELSE DecodeUtf8(filename)
    ELSE filename

\* A Content-Disposition header: None, or the form of its filename parameter
\* ("star" for filename*=UTF-8''..., "quoted", "plain") with the text matched.
CdHeader(form, value) == <<form, value>>

RECURSIVE StripQuotes(_)
StripQuotes(s) ==
    IF Len(s) > 0 /\ s[1] = "quote" THEN StripQuotes(Tail(s))
    ELSE IF Len(s) > 0 /\ s[Len(s)] = "quote" THEN StripQuotes(SubSeq(s, 1, Len(s) - 1))
    ELSE s

filename_from_content_disposition(cd) ==
    IF Falsy(cd) THEN None
    ELSE LET fname == IF cd[1] = "star" THEN Unquote(cd[2])
                      ELSE StripQuotes(StripWs(cd[2]))
             base  == LastComponent(LastComponent(fname, "/"), "backslash")
         IN IF fix_encoding(base) = <<>> THEN None ELSE fix_encoding(base)

\* re.sub(r"\s+", " ", name)
RECURSIVE CollapseWs(_)
CollapseWs(s) ==
    IF s = <<>> THEN <<>>
    ELSE IF Head(s) = " " /\ Len(s) >= 2 /\ s[2] = " " THEN CollapseWs(Tail(s))
    ELSE <<Head(s)>> \o CollapseWs(Tail(s))

SafeNameMaxLen == 80

safe_name(name) ==
    LET n1 == [i \in 1..Len(StripWs(name)) |->
                 IF StripWs(name)[i] = "nbsp" THEN " " ELSE StripWs(name)[i]]
        n2 == [i \in 1..Len(n1) |-> IF n1[i] \in {"/", "backslash"} THEN "-" ELSE n1[i]]
        Legal(c) == c \notin {":", "*", "?", "quote", "<", ">", "|"}
        n3 == CollapseWs(SelectSeq(n2, Legal))
        n4 == IF n3 = <<>> THEN <<"u", "n", "t", "i", "t", "l", "e", "d">> ELSE n3
    IN IF Len(n4) > SafeNameMaxLen THEN RStrip(SubSeq(n4, 1, SafeNameMaxLen)) ELSE n4

\* Path.suffix / Path.stem of a file name
DotOf(name) ==
    LET hits == { i \in 1..Len(name) : name[i] = "." }
    IN IF hits = {} THEN 0 ELSE CHOOSE i \in hits : \A j \in hits : j <= i

PathSuffix(name) ==
    IF 1 < DotOf(name) /\ DotOf(name) < Len(name)
    THEN SubSeq(name, DotOf(name), Len(name)) ELSE <<>>

PathStem(name) ==
    IF 1 < DotOf(name) /\ DotOf(name) < Len(name)
    THEN SubSeq(name, 1, DotOf(name) - 1) ELSE name

DigitChar(d) ==
    CASE d = 0 -> "0" [] d = 1 -> "1" [] d = 2 -> "2" [] d = 3 -> "3" [] d = 4 -> "4"
      [] d = 5 -> "5" [] d = 6 -> "6" [] d = 7 -> "7" [] d = 8 -> "8" [] d = 9 -> "9"

\* str(i)
RECURSIVE IntChars(_)
IntChars(i) == IF i < 10 THEN <<DigitChar(i)>> ELSE IntChars(i \div 10) \o <<DigitChar(i % 10)>>

\* f"{stem}_{i}{suffix}"
Numbered(name, i) == PathStem(name) \o <<"_">> \o IntChars(i) \o PathSuffix(name)

\* the while loop of make_unique_path
RECURSIVE FirstFreeNumbered(_, _, _)
FirstFreeNumbered(files, name, i) ==
    IF Numbered(name, i) \notin files THEN Numbered(name, i)
    ELSE FirstFreeNumbered(files, name, i + 1)

\* the numbered name is used without looking whether the plain one is free
make_unique_path_AlwaysNumbered(files, name) == FirstFreeNumbered(files, name, 2)

\* make_unique_path: files are the names that exist in the directory
make_unique_path(files, name) ==
    IF name \notin files THEN name ELSE FirstFreeNumbered(files, name, 2)

\* download_file up to the open(): the name the body is written under
DestName(files, cd, default_name) ==
    LET cd_name  == filename_from_content_disposition(cd)
        filename == IF ~Falsy(cd_name) THEN cd_name
                    ELSE IF ~Falsy(default_name) THEN default_name
                    ELSE <<"f", "i", "l", "e">>
    IN make_unique_path(files, safe_name(fix_encoding(filename)))

\* ------------------------------------------------------------------------
\*  State
\* ------------------------------------------------------------------------
VARIABLES
    dom,            \* the markup handed to the resolver (page or inline snippet)
    pc,             \* "markup" | "resolved" | "raised"
    act_type,       \* "resource" | "folder" once an activity was resolved
    activity_url,   \* act_url of the activity
    file_urls,      \* activity_obj["files"]
    navigations,    \* number of page.goto calls made for the activity
    inline_urls,    \* result of the inline extraction of a folder activity
    visits,         \* tree items recurse() was entered for, in order
    strategy,       \* the return statement that produced file_urls
    activity_page   \* page.content() after a successful page.goto, else <<>>

resolverVars == <<dom, pc, act_type, activity_url, file_urls, navigations,
                  inline_urls, visits, strategy, activity_page>>

VARIABLES
    apage,          \* the blocks of the assignment page parse_assign_page reads
    a_pc,           \* "markup", then the loop being run, then "done"
    a_i,            \* position in the rows of the running loop
    meta            \* the meta dict; <<>> is the dict without keys

assignVars == <<apage, a_pc, a_i, meta>>

VARIABLES
    dl_urls,            \* file_urls of the running download_files_for_activity
    dl_pc,              \* "run" | "done" | "raised" (an exception left the call)
    dl_k,               \* position of the loop in dl_urls
    dest_files,         \* names that exist in dest_dir
    downloaded_paths,   \* the result list
    attempted,          \* positions of the URLs download_file was called for
    written             \* one record per open(dest_path, "wb")

downloadVars == <<dl_urls, dl_pc, dl_k, dest_files, downloaded_paths, attempted, written>>

VARIABLES
    course_page,    \* the sections of the course page, in document order
    c_pc,           \* "markup" | "walk" | "done" | "raised"
    sec_index,      \* sec_index of the section loop
    act_index,      \* act_index of the last element the activity loop took
    section_obj,    \* section_obj["activities"] of the section being walked
    course_data     \* course_data["sections"] and course_data["webinars"]

courseVars == <<course_page, c_pc, sec_index, act_index, section_obj, course_data>>

vars == <<resolverVars, assignVars, downloadVars, courseVars>>

notResolverVars == <<assignVars, downloadVars, courseVars>>

notAssignVars == <<resolverVars, downloadVars, courseVars>>

notDownloadVars == <<resolverVars, assignVars, courseVars>>

notCourseVars == <<resolverVars, assignVars, downloadVars>>

\* ------------------------------------------------------------------------
\*  Inputs of the resolver
\* ------------------------------------------------------------------------
UrlA == <<"/", Marker, "a">>

UrlAAbs == MOODLE_BASE \o UrlA

UrlB == <<"/", Marker, "b">>

Hrefs == { None, <<"#">>, UrlA, UrlAAbs, UrlB,
           <<" ", "/", "mod", "view", " ">>, <<"/", "mod", "page">>,
           <<"JavaScript:", "void">> }

Srcs == { UrlA, <<"/", "theme", "pix">> }

TreeKinds == {"foldertree", "div", "ygtvitem", "ygtvchildren"}

TreeHrefs == { UrlA, UrlAAbs, UrlB }

PageKinds == {"foldertree", "ygtvitem"} \cup RegionKinds

ViewUrl == MOODLE_BASE \o <<"/", "mod", "view">>

\* a relative link without a leading slash: left as it is by parse_course_page
RelMarkerUrl == <<"mod", "/", Marker, "a">>

ActUrls == { <<"#">>, RelMarkerUrl, UrlAAbs, ViewUrl }

FolderUrls == { <<"#">>, UrlAAbs, ViewUrl }

\* The open elements at the end of the document: where the next element of a
\* document in pre-order can be attached.
RECURSIVE RightPath(_, _)
RightPath(d, n) == IF n = 0 THEN {0} ELSE {n} \cup RightPath(d, d[n].parent)

OpenParents(d) ==
    { p \in RightPath(d, Len(d)) : p = 0 \/ d[p].kind \notin LeafKinds }

KindOf(d, p) == IF p = 0 THEN "document" ELSE d[p].kind

\* Nesting of the portal's markup dialect: where an element of kind k occurs.
MayContain(pk, k) ==
    CASE k = "foldertree"   -> pk \in {"document"} \cup RegionKinds
      [] k \in RegionKinds  -> pk = "document"
      [] k = "div"          -> pk = "foldertree"
      [] k = "ygtvitem"     -> pk \in {"foldertree", "div", "ygtvchildren"}
      [] k = "ygtvchildren" -> pk = "ygtvitem"
      [] k = "a"            -> pk # "ygtvchildren"
      [] k = "media"        -> pk \in {"document"} \cup RegionKinds

NumLinks(d) == Cardinality({ i \in 1..Len(d) : d[i].kind \in LeafKinds })

\* Pages an activity URL can lead to when the inline snippet gave nothing.
ActivityPages ==
    { <<>>,
      << Node(0, "foldertree", None, FALSE), Node(1, "ygtvitem", None, FALSE),
         Node(2, "a", UrlB, FALSE) >>,
      << Node(0, "region-main", None, FALSE), Node(1, "a", <<"/", "mod", "view">>, FALSE) >>,
      << Node(0, "foldertree", None, FALSE), Node(1, "ygtvitem", None, TRUE),
         Node(0, "foldertree", None, FALSE), Node(3, "ygtvitem", None, FALSE),
         Node(4, "a", UrlB, FALSE) >> }

\* ------------------------------------------------------------------------
\*  Actions
\* ------------------------------------------------------------------------
ResolverInit ==
    /\ dom = <<>>
    /\ pc = "markup"
    /\ act_type = ""
    /\ activity_url = <<>>
    /\ file_urls = <<>>
    /\ navigations = 0
    /\ inline_urls = <<>>
    /\ visits = <<>>
    /\ strategy = ""
    /\ activity_page = <<>>

\* The markup grows by one element, in document order.
AddContainer ==
    /\ pc = "markup"
    /\ Len(dom) < MaxNodes
    /\ \E p \in OpenParents(dom), k \in PageKinds :
          /\ MayContain(KindOf(dom, p), k)
          /\ dom' = Append(dom, Node(p, k, None, FALSE))
    /\ UNCHANGED <<pc, act_type, activity_url, file_urls, navigations, inline_urls, visits,
                   strategy, activity_page>>
    /\ UNCHANGED notResolverVars

AddAnchor ==
    /\ pc = "markup"
    /\ Len(dom) < MaxNodes
    /\ NumLinks(dom) < MaxLinks
    /\ \E p \in OpenParents(dom), h \in Hrefs :
          /\ MayContain(KindOf(dom, p), "a")
          /\ dom' = Append(dom, Node(p, "a", h, FALSE))
    /\ UNCHANGED <<pc, act_type, activity_url, file_urls, navigations, inline_urls, visits,
                   strategy, activity_page>>
    /\ UNCHANGED notResolverVars

AddMedia ==
    /\ pc = "markup"
    /\ Len(dom) < MaxNodes
    /\ NumLinks(dom) < MaxLinks
    /\ \E p \in OpenParents(dom), h \in Srcs :
          /\ MayContain(KindOf(dom, p), "media")
          /\ dom' = Append(dom, Node(p, "media", h, FALSE))
    /\ UNCHANGED <<pc, act_type, activity_url, file_urls, navigations, inline_urls, visits,
                   strategy, activity_page>>
    /\ UNCHANGED notResolverVars

\* The inline markup of a folder activity grows by one element.
AddTreeNode ==
    /\ pc = "markup"
    /\ Len(dom) < MaxTreeNodes
    /\ \E p \in OpenParents(dom), k \in TreeKinds, b \in BOOLEAN :
          /\ b => k = "ygtvitem"
          /\ MayContain(KindOf(dom, p), k)
          /\ dom' = Append(dom, Node(p, k, None, b))
    /\ UNCHANGED <<pc, act_type, activity_url, file_urls, navigations, inline_urls, visits,
                   strategy, activity_page>>
    /\ UNCHANGED notResolverVars

AddTreeAnchor ==
    /\ pc = "markup"
    /\ Len(dom) < MaxTreeNodes
    /\ NumLinks(dom) < MaxTreeLinks
    /\ \E p \in OpenParents(dom), h \in TreeHrefs :
          /\ MayContain(KindOf(dom, p), "a")
          /\ dom' = Append(dom, Node(p, "a", h, FALSE))
    /\ UNCHANGED <<pc, act_type, activity_url, file_urls, navigations, inline_urls, visits,
                   strategy, activity_page>>
    /\ UNCHANGED notResolverVars

\* parse_course_page, act_type == "resource": the files of the activity are
\* collect_activity_files(page, act_url); dom is the activity page.
ResourceActivity ==
    /\ pc = "markup"
    /\ \E u \in ActUrls, gotoOk \in BOOLEAN :
          \E r \in {collect_activity_files(dom, u, gotoOk)} :
             /\ activity_url' = u
             /\ file_urls' = r.urls
             /\ navigations' = r.navs
             /\ visits' = r.visits
             /\ strategy' = r.strategy
             /\ activity_page' = IF r.navs = 1 /\ gotoOk THEN dom ELSE <<>>
    /\ act_type' = "resource"
    /\ pc' = "resolved"
    /\ UNCHANGED <<dom, inline_urls>>
    /\ UNCHANGED notResolverVars

\* parse_course_page, act_type == "assign": the files of the activity are
\* the attachments parse_assign_page found; dom is the assignment page.
AssignActivity ==
    /\ pc = "markup"
    /\ \E u \in ActUrls, gotoOk \in BOOLEAN :
          /\ activity_url' = u
          /\ file_urls' = parse_assign_files(dom, gotoOk)
          /\ strategy' = IF gotoOk THEN "assign" ELSE "gotofail"
          /\ activity_page' = IF gotoOk THEN dom ELSE <<>>
    /\ navigations' = 1
    /\ act_type' = "assign"
    /\ pc' = "resolved"
    /\ UNCHANGED <<dom, inline_urls, visits>>
    /\ UNCHANGED notResolverVars

FolderActivity_AlwaysNavigate ==
    /\ pc = "markup"
    /\ \E inl \in {parse_folder_tree(dom)} :
          \E u \in FolderUrls, gotoOk \in BOOLEAN, page \in ActivityPages :
             /\ activity_url' = u
             /\ IF inl.raised
                THEN /\ pc' = "raised"
                     /\ visits' = inl.visits
                     /\ strategy' = "exception"
                     /\ UNCHANGED <<file_urls, navigations, inline_urls, activity_page>>
                ELSE /\ pc' = "resolved"
                     /\ inline_urls' = inl.files
                     /\ \E r \in {collect_activity_files(page, u, gotoOk)} :
                           /\ file_urls' = IF inl.files # <<>> THEN inl.files ELSE r.urls
                           /\ navigations' = r.navs
                           /\ visits' = inl.visits \o r.visits
                           /\ strategy' = IF inl.files # <<>> THEN "inline" ELSE r.strategy
                           /\ activity_page' = IF r.navs = 1 /\ gotoOk THEN page ELSE <<>>
    /\ act_type' = "folder"
    /\ UNCHANGED dom
    /\ UNCHANGED notResolverVars

\* parse_course_page, act_type == "folder": dom is the activity's element on
\* the course page; the activity page is opened only if it yields nothing.
\* An exception of the inline extraction leaves parse_course_page.
FolderActivity ==
    /\ pc = "markup"
    /\ \E inl \in {parse_folder_tree(dom)} :
          \E u \in FolderUrls, gotoOk \in BOOLEAN, page \in ActivityPages :
             /\ activity_url' = u
             /\ IF inl.raised
                THEN /\ pc' = "raised"
                     /\ visits' = inl.visits
                     /\ strategy' = "exception"
                     /\ UNCHANGED <<file_urls, navigations, inline_urls, activity_page>>
                ELSE /\ pc' = "resolved"
                     /\ inline_urls' = inl.files
                     /\ IF inl.files # <<>>
                        THEN /\ file_urls' = inl.files
                             /\ navigations' = 0
                             /\ visits' = inl.visits
                             /\ strategy' = "inline"
                             /\ activity_page' = <<>>
                        ELSE \E r \in {collect_activity_files(page, u, gotoOk)} :
                                /\ file_urls' = r.urls
                                /\ navigations' = r.navs
                                /\ visits' = inl.visits \o r.visits
                                /\ strategy' = r.strategy
                                /\ activity_page' = IF r.navs = 1 /\ gotoOk THEN page ELSE <<>>
    /\ act_type' = "folder"
    /\ UNCHANGED dom
    /\ UNCHANGED notResolverVars

\* No activity is being resolved.
ResolverIdle ==
    /\ dom = <<>>
    /\ pc = "idle"
    /\ act_type = ""
    /\ activity_url = <<>>
    /\ file_urls = <<>>
    /\ navigations = 0
    /\ inline_urls = <<>>
    /\ visits = <<>>
    /\ strategy = ""
    /\ activity_page = <<>>

\* ------------------------------------------------------------------------
\*  parse_assign_page as a process
\* ------------------------------------------------------------------------
DateTexts == { <<"d1">>, <<"d2">> }

GradeTexts ==
    { <<"7", ",", "0", "0", " ", "/", " ", "1", "0", ",", "0", "0">>,
      <<"P">>,
      <<"P", " ", "/", " ", "1", ",", "5">>,
      <<"7", "nbsp", "5", "/">>,
      <<"1", "/", "2", "/", "3">>,
      <<"1", ",", "0", ",", "0", "/", "2">> }

AssignBlocks ==
    { Block("adate", <<"Pochatok pryimannia", ":">>, d) : d \in DateTexts \cup {<<>>} }
      \cup { Block("adate", <<"Termin splyvaie", ":">>, <<"d1">>),
             Block("adate", None, <<"d1">>) }
      \cup { Block("ddiv", None, <<"Available from", ":", "d2">>),
             Block("ddiv", None, <<"due date", "d1", "cut-off", "d2">>) }
      \cup { Block("srow", <<"Sproba nomer">>, <<"v1">>),
             Block("srow", <<"Sproba nomer">>, <<"v2">>),
             Block("srow", <<"Termin zdachi">>, <<"d2">>),
             Block("srow", <<"Status roboty">>, None) }
      \cup { Block("a", None, UrlA), Block("a", None, UrlAAbs) }
      \cup { Block("frow", <<"Otsinka">>, g) : g \in GradeTexts }
      \cup { Block("frow", <<"Vidhuk">>, <<"7", "/", "1">>),
             Block("frow", <<"Otsinka">>, None) }

Phases == <<"adates", "daterows", "status", "files", "feedback">>

\* the rows a loop of parse_assign_page runs over
PhaseRows(page, ph) ==
    CASE ph = "adates"   -> BlocksOf(page, "adate")
      [] ph = "daterows" -> BlocksOf(page, "ddiv") \o BlocksOf(page, "srow")
      [] ph = "status"   -> BlocksOf(page, "srow")
      [] ph = "files"    -> <<page>>
      [] ph = "feedback" -> BlocksOf(page, "frow")

\* the position at which the k-th loop (or the first later loop with rows)
\* starts; "done" after the last
RECURSIVE Enter(_, _)
Enter(page, k) ==
    IF k > Len(Phases) THEN [pc |-> "done", i |-> 0]
    ELSE IF PhaseRows(page, Phases[k]) # <<>> THEN [pc |-> Phases[k], i |-> 1]
    ELSE Enter(page, k + 1)

PhaseIndex(ph) == CHOOSE k \in 1..Len(Phases) : Phases[k] = ph

\* the position after row i of loop ph
After(page, ph, i) ==
    IF i < Len(PhaseRows(page, ph)) THEN [pc |-> ph, i |-> i + 1]
    ELSE Enter(page, PhaseIndex(ph) + 1)

AssignInit ==
    /\ apage = <<>>
    /\ a_pc = "markup"
    /\ a_i = 0
    /\ meta = <<>>

AssignIdle ==
    /\ apage = <<>>
    /\ a_pc = "idle"
    /\ a_i = 0
    /\ meta = <<>>

\* The assignment page has one more block.
AddBlock ==
    /\ a_pc = "markup"
    /\ Len(apage) < MaxBlocks
    /\ \E b \in AssignBlocks : apage' = Append(apage, b)
    /\ UNCHANGED <<a_pc, a_i, meta>>
    /\ UNCHANGED notAssignVars

\* page.goto(url): on an exception the function returns {}
OpenAssignPage ==
    /\ a_pc = "markup"
    /\ \E gotoOk \in BOOLEAN :
          IF gotoOk
          THEN /\ meta' = MetaInit
               /\ a_pc' = Enter(apage, 1).pc
               /\ a_i' = Enter(apage, 1).i
          ELSE /\ meta' = <<>>
               /\ a_pc' = "done"
               /\ a_i' = 0
    /\ UNCHANGED apage
    /\ UNCHANGED notAssignVars

ScanActivityDate ==
    /\ a_pc = "adates"
    /\ meta' = ActivityDateStep(meta, PhaseRows(apage, "adates")[a_i])
    /\ a_pc' = After(apage, "adates", a_i).pc
    /\ a_i' = After(apage, "adates", a_i).i
    /\ UNCHANGED apage
    /\ UNCHANGED notAssignVars

ScanDateRow ==
    /\ a_pc = "daterows"
    /\ meta' = DateRowStep(meta, PhaseRows(apage, "daterows")[a_i])
    /\ a_pc' = After(apage, "daterows", a_i).pc
    /\ a_i' = After(apage, "daterows", a_i).i
    /\ UNCHANGED apage
    /\ UNCHANGED notAssignVars

ScanStatusRow ==
    /\ a_pc = "status"
    /\ meta' = StatusRowStep(meta, PhaseRows(apage, "status")[a_i])
    /\ a_pc' = After(apage, "status", a_i).pc
    /\ a_i' = After(apage, "status", a_i).i
    /\ UNCHANGED apage
    /\ UNCHANGED notAssignVars

CollectAttachments ==
    /\ a_pc = "files"
    /\ meta' = [meta EXCEPT !.files = AttachmentLoop(BlocksOf(apage, "a"), <<>>)]
    /\ a_pc' = After(apage, "files", a_i).pc
    /\ a_i' = After(apage, "files", a_i).i
    /\ UNCHANGED apage
    /\ UNCHANGED notAssignVars

\* a row of the feedback loop: the grade row ends the loop (break)
ScanFeedbackRow ==
    /\ a_pc = "feedback"
    /\ IF IsGradeRow(PhaseRows(apage, "feedback")[a_i])
       THEN /\ meta' = GradeStep(meta, PhaseRows(apage, "feedback")[a_i])
            /\ a_pc' = "done"
            /\ a_i' = 0
       ELSE /\ meta' = meta
            /\ a_pc' = After(apage, "feedback", a_i).pc
            /\ a_i' = After(apage, "feedback", a_i).i
    /\ UNCHANGED apage
    /\ UNCHANGED notAssignVars

\* ------------------------------------------------------------------------
\*  download_files_for_activity as a process
\* ------------------------------------------------------------------------
DlBase == <<"https:", "h", "/", Marker, "/">>

DownloadUrls ==
    { DlBase \o <<"a", ".", "t">>,
      DlBase \o <<"x", "/", "a", ".", "t">>,
      DlBase \o <<"a", "_", "2", ".", "t">>,
      <<"https:", "[", "h", "/", Marker, "/", "b">> }

\* the Content-Disposition headers a response may carry
CdHeaders == { None, CdHeader("star", <<"d", "/", "xD0", "xB0", ".", "t">>) }

\* names that may be in the directory before the call
InitialNames == { <<"a", ".", "t">>, <<"a", "_", "2", ".", "t">> }

UrlLists == UNION { [1..n -> DownloadUrls] : n \in 0..MaxUrls }

DownloadInit ==
    /\ dl_urls \in UrlLists
    /\ dest_files \in SUBSET InitialNames
    /\ dl_pc = IF dl_urls = <<>> THEN "done" ELSE "run"
    /\ dl_k = 1
    /\ downloaded_paths = <<>>
    /\ attempted = <<>>
    /\ written = <<>>

DownloadIdle ==
    /\ dl_urls = <<>>
    /\ dest_files = {}
    /\ dl_pc = "idle"
    /\ dl_k = 1
    /\ downloaded_paths = <<>>
    /\ attempted = <<>>
    /\ written = <<>>

DlAdvance ==
    /\ dl_k' = dl_k + 1
    /\ dl_pc' = IF dl_k = Len(dl_urls) THEN "done" ELSE "run"

\* extract_filename_from_url(file_url) raises: the exception is not caught in
\* download_files_for_activity and ends the loop
DownloadNameRaises ==
    /\ dl_pc = "run"
    /\ UrlparseRaises(dl_urls[dl_k])
    /\ dl_pc' = "raised"
    /\ UNCHANGED <<dl_urls, dl_k, dest_files, downloaded_paths, attempted, written>>
    /\ UNCHANGED notDownloadVars

\* download_file: session.get or raise_for_status raises; None is returned
DownloadFetchFails ==
    /\ dl_pc = "run"
    /\ ~UrlparseRaises(dl_urls[dl_k])
    /\ attempted' = Append(attempted, dl_k)
    /\ DlAdvance
    /\ UNCHANGED <<dl_urls, dest_files, downloaded_paths, written>>
    /\ UNCHANGED notDownloadVars

\* download_file: the body is streamed to dest_path and the path returned
DownloadSucceeds ==
    /\ dl_pc = "run"
    /\ ~UrlparseRaises(dl_urls[dl_k])
    /\ \E cd \in CdHeaders :
          \E name \in {DestName(dest_files, cd, extract_filename_from_url(dl_urls[dl_k]))} :
             /\ written' = Append(written, [k |-> dl_k, path |-> name, cd |-> cd,
                                            before |-> dest_files, ok |-> TRUE])
             /\ dest_files' = dest_files \cup {name}
             /\ downloaded_paths' = Append(downloaded_paths, name)
    /\ attempted' = Append(attempted, dl_k)
    /\ DlAdvance
    /\ UNCHANGED dl_urls
    /\ UNCHANGED notDownloadVars

\* download_file: dest_path is opened, then iter_content raises; the file
\* stays where it is and None is returned
DownloadStreamFails ==
    /\ dl_pc = "run"
    /\ ~UrlparseRaises(dl_urls[dl_k])
    /\ \E cd \in CdHeaders :
          \E name \in {DestName(dest_files, cd, extract_filename_from_url(dl_urls[dl_k]))} :
             /\ written' = Append(written, [k |-> dl_k, path |-> name, cd |-> cd,
                                            before |-> dest_files, ok |-> FALSE])
             /\ dest_files' = dest_files \cup {name}
    /\ attempted' = Append(attempted, dl_k)
    /\ DlAdvance
    /\ UNCHANGED <<dl_urls, downloaded_paths>>
    /\ UNCHANGED notDownloadVars

\* ------------------------------------------------------------------------
\*  parse_course_page as a process
\* ------------------------------------------------------------------------
\* f"{n:02d}"
TwoDigits(n) == IF n < 10 THEN <<"0">> \o IntChars(n) ELSE IntChars(n)

\* f"{index:02d}_{safe_name(name or f'<word> {index}')}"
IndexedDirName(index, name, word) ==
    TwoDigits(index) \o <<"_">>
        \o safe_name(IF name # <<>> THEN name ELSE word \o <<" ">> \o IntChars(index))

\* the loop of download_files_for_activity with every fetch succeeding
\* (fetchOk) or every fetch failing; files are the names in dest_dir
RECURSIVE DownloadLoop(_, _, _, _, _)
DownloadLoop(urls, dest_dir, files, paths, fetchOk) ==
    IF urls = <<>> THEN [paths |-> paths, raised |-> FALSE]
    ELSE IF UrlparseRaises(Head(urls)) THEN [paths |-> paths, raised |-> TRUE]
    ELSE IF ~fetchOk THEN DownloadLoop(Tail(urls), dest_dir, files, paths, fetchOk)
    ELSE LET name == DestName(files, None, extract_filename_from_url(Head(urls)))
         IN DownloadLoop(Tail(urls), dest_dir, files \cup {name},
                         Append(paths, Append(dest_dir, name)), fetchOk)

\* A path is the sequence of its components below DOWNLOAD_ROOT:
\* course directory, section directory, activity directory, file name.
download_files_for_activity(urls, course_title, section_index, section_name, activity_index, activity_name, fetchOk) ==
    LET course_dir        == safe_name(course_title)
        section_dir_name  == IndexedDirName(section_index, section_name,
                                            <<"S", "e", "c", "t", "i", "o", "n">>)
        activity_dir_name == IndexedDirName(activity_index, activity_name,
                                            <<"A", "c", "t", "i", "v", "i", "t", "y">>)
    IN DownloadLoop(urls, <<course_dir, section_dir_name, activity_dir_name>>,
                    {}, <<>>, fetchOk)

\* get_text(strip=True) of an optional element
TextOrEmpty(t) == IF t = None THEN <<>> ELSE Strip(t)

\* the three sources of the activity name
ActivityName(act) ==
    IF act.instancename # None THEN Strip(act.instancename)
    ELSE IF act.dataname # None /\ Strip(act.dataname) # <<>> THEN Strip(act.dataname)
    ELSE Strip(act.linktext)

\* the first class with the prefix, the prefix removed
RECURSIVE ActivityType(_)
ActivityType(classes) ==
    IF classes = <<>> THEN <<>>
    ELSE IF Head(classes)[1] = "modtype_"
    THEN SelectSeq(Head(classes), LAMBDA t : t # "modtype_")
    ELSE ActivityType(Tail(classes))

Platform(type) ==
    CASE type = <<"bigbluebuttonbn">> -> <<"bigbluebutton">>
      [] type = <<"googlemeet">>      -> <<"google_meet">>
      [] OTHER                        -> None

IsWebinarsSection(sec) ==
    \/ Lower(TextOrEmpty(sec.name)) = <<"vebinary">>
    \/ Lower(TextOrEmpty(sec.data_name)) = <<"vebinary">>

\* The files of an activity: the URL list and whether an exception left the
\* extraction. act.served is the page the activity URL leads to.
ActivityFiles(act, type, act_url, gotoOk) ==
    CASE type = <<"assign">> ->
            [has |-> FALSE, urls |-> parse_assign_files(act.served, gotoOk), raised |-> FALSE]
      [] type = <<"resource">> ->
            [has |-> TRUE, urls |-> collect_activity_files(act.served, act_url, gotoOk).urls,
             raised |-> FALSE]
      [] type = <<"folder">> ->
            LET inl == parse_folder_tree(act.snippet)
            IN IF inl.raised THEN [has |-> TRUE, urls |-> <<>>, raised |-> TRUE]
               ELSE IF inl.files # <<>> THEN [has |-> TRUE, urls |-> inl.files, raised |-> FALSE]
               ELSE [has |-> TRUE,
                     urls |-> collect_activity_files(act.served, act_url, gotoOk).urls,
                     raised |-> FALSE]
      [] OTHER -> [has |-> FALSE, urls |-> <<>>, raised |-> FALSE]

CourseTitle == <<"C">>

FileHref == <<"/", Marker, "/", "a", ".", "t">>

FilePage == << Node(0, "region-main", None, FALSE), Node(1, "a", FileHref, FALSE) >>

InlineTree ==
    << Node(0, "foldertree", None, FALSE), Node(1, "ygtvitem", None, FALSE),
       Node(2, "a", FileHref, FALSE) >>

Element(anchor, href, classes, inst, data, text, snippet, served) ==
    [anchor |-> anchor, href |-> href, classes |-> classes, instancename |-> inst,
     dataname |-> data, linktext |-> text, snippet |-> snippet, served |-> served]

\* li.activity elements of the course page
CourseElements ==
    { Element(FALSE, None, << <<"activity">>, <<"modtype_", "label">> >>,
              None, None, <<>>, <<>>, <<>>),
      Element(TRUE, <<"/", "mod", "view">>, << <<"activity">>, <<"modtype_", "resource">> >>,
              <<"R", " ">>, None, <<"x">>, <<>>, FilePage),
      Element(TRUE, ViewUrl, << <<"modtype_", "bigbluebuttonbn">> >>,
              None, <<" ", "W">>, <<"x">>, <<>>, <<>>),
      Element(TRUE, ViewUrl, << <<"activity">>, <<"modtype_", "assign">> >>,
              None, None, <<"T", ":", "1">>, <<>>, FilePage),
      Element(TRUE, None, << <<"activity">>, <<"modtype_", "folder">> >>,
              None, <<" ">>, <<>>, InlineTree, <<>>) }

\* li.section elements: the text of the name element and data-sectionname
SectionHeads ==
    { [name |-> None, data_name |-> None],
      [name |-> <<"Vebinary">>, data_name |-> None],
      [name |-> <<"T", " ">>, data_name |-> None],
      [name |-> None, data_name |-> <<"Vebinary", " ">>] }

NumElements(page) ==
    LET RECURSIVE Sum(_)
        Sum(i) == IF i = 0 THEN 0 ELSE Len(page[i].acts) + Sum(i - 1)
    IN Sum(Len(page))

CourseInit ==
    /\ course_page = <<>>
    /\ c_pc = "markup"
    /\ sec_index = 0
    /\ act_index = 0
    /\ section_obj = <<>>
    /\ course_data = [sections |-> <<>>, webinars |-> <<>>]

CourseIdle ==
    /\ course_page = <<>>
    /\ c_pc = "idle"
    /\ sec_index = 0
    /\ act_index = 0
    /\ section_obj = <<>>
    /\ course_data = [sections |-> <<>>, webinars |-> <<>>]

\* The course page grows by one section.
AddSection ==
    /\ c_pc = "markup"
    /\ Len(course_page) < MaxSections
    /\ \E h \in SectionHeads :
          course_page' = Append(course_page,
                                [name |-> h.name, data_name |-> h.data_name, acts |-> <<>>])
    /\ UNCHANGED <<c_pc, sec_index, act_index, section_obj, course_data>>
    /\ UNCHANGED notCourseVars

\* The last section grows by one activity element.
AddActivityElement ==
    /\ c_pc = "markup"
    /\ course_page # <<>>
    /\ NumElements(course_page) < MaxActs
    /\ \E e \in CourseElements :
          course_page' = [course_page EXCEPT ![Len(course_page)].acts = Append(@, e)]
    /\ UNCHANGED <<c_pc, sec_index, act_index, section_obj, course_data>>
    /\ UNCHANGED notCourseVars

\* parse_course_page up to the section loop
OpenCoursePage ==
    /\ c_pc = "markup"
    /\ c_pc' = IF course_page = <<>> THEN "done" ELSE "walk"
    /\ sec_index' = IF course_page = <<>> THEN 0 ELSE 1
    /\ UNCHANGED <<course_page, act_index, section_obj, course_data>>
    /\ UNCHANGED notCourseVars

\* one turn of the activity loop for an element without an anchor
SkipActivity ==
    /\ c_pc = "walk"
    /\ act_index < Len(course_page[sec_index].acts)
    /\ ~course_page[sec_index].acts[act_index + 1].anchor
    /\ act_index' = act_index + 1
    /\ UNCHANGED <<course_page, c_pc, sec_index, section_obj, course_data>>
    /\ UNCHANGED notCourseVars

\* one turn of the activity loop for an element with an anchor
RecordActivity ==
    /\ c_pc = "walk"
    /\ act_index < Len(course_page[sec_index].acts)
    /\ course_page[sec_index].acts[act_index + 1].anchor
    /\ act_index' = act_index + 1
    /\ LET sec          == course_page[sec_index]
           act          == sec.acts[act_index + 1]
           section_name == TextOrEmpty(sec.name)
           act_url      == Resolve(IF act.href = None THEN <<>> ELSE act.href)
           act_name     == ActivityName(act)
           type         == ActivityType(act.classes)
           webinars     == IF IsWebinarsSection(sec) /\ Platform(type) # None
                           THEN Append(course_data.webinars,
                                       [name |-> act_name, platform |-> Platform(type),
                                        moodle_url |-> act_url,
                                        section_name |-> section_name,
                                        section_index |-> sec_index])
                           ELSE course_data.webinars
       IN \E gotoOk \in BOOLEAN, fetchOk \in BOOLEAN :
             \E f \in {ActivityFiles(act, type, act_url, gotoOk)} :
                \E d \in {download_files_for_activity(f.urls, CourseTitle, sec_index,
                                                      section_name, act_index', act_name,
                                                      fetchOk)} :
                   IF f.raised \/ d.raised
                   THEN /\ c_pc' = "raised"
                        /\ course_data' = [course_data EXCEPT !.webinars = webinars]
                        /\ UNCHANGED section_obj
                   ELSE /\ c_pc' = "walk"
                        /\ course_data' = [course_data EXCEPT !.webinars = webinars]
                        /\ section_obj' =
                              Append(section_obj,
                                     [name |-> act_name, type |-> type, url |-> act_url,
                                      keys |-> {"name", "type", "url"}
                                               \cup (IF type = <<"assign">> THEN {"meta"} ELSE {})
                                               \cup (IF f.has THEN {"files"} ELSE {})
                                               \cup (IF f.urls # <<>>
                                                     THEN {"downloaded_files"} ELSE {}),
                                      files |-> f.urls,
                                      downloaded_files |-> d.paths])
    /\ UNCHANGED <<course_page, sec_index>>
    /\ UNCHANGED notCourseVars

\* the end of the activity loop with the section kept only for its activities
EndSection_ActivitiesOnly ==
    /\ c_pc = "walk"
    /\ act_index = Len(course_page[sec_index].acts)
    /\ LET section_name == TextOrEmpty(course_page[sec_index].name)
       IN course_data' =
             IF section_obj # <<>>
             THEN [course_data EXCEPT
                      !.sections = Append(@, [name |-> section_name,
                                              activities |-> section_obj])]
             ELSE course_data
    /\ section_obj' = <<>>
    /\ act_index' = 0
    /\ IF sec_index = Len(course_page)
       THEN c_pc' = "done" /\ UNCHANGED sec_index
       ELSE c_pc' = "walk" /\ sec_index' = sec_index + 1
    /\ UNCHANGED course_page
    /\ UNCHANGED notCourseVars

\* the end of the activity loop: the section is kept if it has a name or
\* an activity, and the section loop goes on
EndSection ==
    /\ c_pc = "walk"
    /\ act_index = Len(course_page[sec_index].acts)
    /\ LET section_name == TextOrEmpty(course_page[sec_index].name)
       IN course_data' =
             IF section_name # <<>> \/ section_obj # <<>>
             THEN [course_data EXCEPT
                      !.sections = Append(@, [name |-> section_name,
                                              activities |-> section_obj])]
             ELSE course_data
    /\ section_obj' = <<>>
    /\ act_index' = 0
    /\ IF sec_index = Len(course_page)
       THEN c_pc' = "done" /\ UNCHANGED sec_index
       ELSE c_pc' = "walk" /\ sec_index' = sec_index + 1
    /\ UNCHANGED course_page
    /\ UNCHANGED notCourseVars

\* ------------------------------------------------------------------------
\*  Specifications
\* ------------------------------------------------------------------------
Init == ResolverInit /\ AssignIdle /\ DownloadIdle /\ CourseIdle

Next ==
    \/ AddContainer
    \/ AddAnchor
    \/ AddMedia
    \/ ResourceActivity
    \/ AssignActivity

Spec == Init /\ [][Next]_vars

NextFolder ==
    \/ AddTreeNode
    \/ AddTreeAnchor
    \/ FolderActivity

SpecFolder == Init /\ [][NextFolder]_vars

InitAssign == ResolverIdle /\ AssignInit /\ DownloadIdle /\ CourseIdle

NextAssign ==
    \/ AddBlock
    \/ OpenAssignPage
    \/ ScanActivityDate
    \/ ScanDateRow
    \/ ScanStatusRow
    \/ CollectAttachments
    \/ ScanFeedbackRow

SpecAssign == InitAssign /\ [][NextAssign]_vars

InitDownload == ResolverIdle /\ AssignIdle /\ DownloadInit /\ CourseIdle

NextDownload ==
    \/ DownloadNameRaises
    \/ DownloadFetchFails
    \/ DownloadSucceeds
    \/ DownloadStreamFails

SpecDownload == InitDownload /\ [][NextDownload]_vars

InitCourse == ResolverIdle /\ AssignIdle /\ DownloadIdle /\ CourseInit

NextCourse ==
    \/ AddSection
    \/ AddActivityElement
    \/ OpenCoursePage
    \/ SkipActivity
    \/ RecordActivity
    \/ EndSection

SpecCourse == InitCourse /\ [][NextCourse]_vars

\* ------------------------------------------------------------------------
\*  Properties of the URL lists
\* ------------------------------------------------------------------------
NoDuplicates(s) == \A i, j \in 1..Len(s) : i # j => s[i] # s[j]

FirstIndex(x, c) == CHOOSE i \in 1..Len(c) : c[i] = x /\ \A j \in 1..(i - 1) : c[j] # x

\* out holds exactly the values of c, in the order of their first occurrence
FirstOccurrenceOrder(out, c) ==
    /\ \A i \in 1..Len(out) : InSeq(out[i], c)
    /\ \A i \in 1..Len(c) : InSeq(c[i], out)
    /\ \A i, j \in 1..Len(out) : i < j => FirstIndex(out[i], c) < FirstIndex(out[j], c)

\* a link target the page-wide scan accepts as a candidate
IsLinkCandidate(raw) ==
    /\ ~Falsy(raw)
    /\ Strip(raw) # <<>>
    /\ ~StartsWithHash(Strip(raw))
    /\ ~StartsWithJavascript(Strip(raw))
    /\ HasMarker(Strip(raw))

\* the resolved targets of the nodes idx, in that order
ResolvedTargets(d, idx) == [i \in 1..Len(idx) |-> Resolve(Strip(d[idx[i]].attr))]

RECURSIVE TreeScan(_, _)
TreeScan(d, vs) ==
    IF vs = <<>> THEN <<>>
    ELSE ResolvedTargets(d, SelectMarkerAnchors(d, Head(vs))) \o TreeScan(d, Tail(vs))

LinkScan(d) ==
    LET Test(j) == d[j].kind = "a" /\ IsLinkCandidate(d[j].attr)
        TestM(j) == d[j].kind = "media" /\ IsLinkCandidate(d[j].attr)
    IN ResolvedTargets(d, SelectSeq(Indices(d), Test))
         \o ResolvedTargets(d, SelectSeq(Indices(d), TestM))

\* The candidates the strategy that returned has scanned, with repetitions.
ScannedCandidates ==
    CASE strategy \in {"foldertree", "inline"} ->
            [i \in 1..Len(TreeScan(dom, visits)) |-> TreeScan(dom, visits)[i]]
      [] strategy = "links"  -> LinkScan(dom)
      [] strategy = "assign" -> ResolvedTargets(dom, SelectMarkerAnchors(dom, 0))
      [] OTHER -> file_urls

\* C1: every file URL list produced (folder tree, activity resolution,
\* assignment attachments) holds no URL twice and lists the scanned
\* candidates in the order of their first occurrence.
C1_Deduplicated ==
    pc = "resolved" =>
        /\ NoDuplicates(file_urls)
        /\ FirstOccurrenceOrder(file_urls, ScannedCandidates)

\* a repeated candidate was dropped from a list of at least two URLs
C1_Witness ==
    /\ pc = "resolved"
    /\ Len(file_urls) >= 2
    /\ Len(ScannedCandidates) > Len(file_urls)

\* C2 as stated: an activity URL with the resource-file marker is returned
\* as the sole result, without navigation, whatever else holds of the URL.
C2_MarkerCheckedFirst ==
    (pc = "resolved" /\ act_type = "resource" /\ HasMarker(activity_url)) =>
        (file_urls = <<activity_url>> /\ navigations = 0)

\* C2 amended: the reachability check comes first. An activity URL that is
\* empty, "#" or does not start with "http" gives the empty list even when it
\* holds the marker; an http URL with the marker is returned as the sole
\* result; neither case navigates.
C2_ReachabilityCheckedFirst ==
    (pc = "resolved" /\ act_type = "resource") =>
        /\ (activity_url = <<>> \/ activity_url = <<"#">> \/ ~StartsWithHttp(activity_url))
              => (file_urls = <<>> /\ navigations = 0)
        /\ (StartsWithHttp(activity_url) /\ HasMarker(activity_url))
              => (file_urls = <<activity_url>> /\ navigations = 0)

\* a marker URL without the http prefix was resolved to nothing
C2_Witness ==
    /\ pc = "resolved"
    /\ act_type = "resource"
    /\ HasMarker(activity_url)
    /\ ~StartsWithHttp(activity_url)
    /\ file_urls = <<>>

\* the anchors of the fallback regions with a usable target
UsableFallbackAnchors(d) ==
    { i \in 1..Len(d) :
        /\ d[i].kind = "a"
        /\ \E r \in 1..Len(d) : d[r].kind \in RegionKinds /\ IsAncestor(d, r, i)
        /\ ~Falsy(d[i].attr)
        /\ Strip(d[i].attr) # <<>>
        /\ ~StartsWithHash(Strip(d[i].attr))
        /\ ~StartsWithJavascript(Strip(d[i].attr)) }

NoMarkerLinks(d) ==
    \A i \in 1..Len(d) : d[i].kind \in LeafKinds => ~HasMarker(d[i].attr)

NavigatedOk ==
    /\ pc = "resolved"
    /\ act_type = "resource"
    /\ navigations = 1
    /\ strategy # "gotofail"

Min(S) == Min0(S)

\* C3: after a successful navigation to a page without marker links, the
\* result is the resolved target of the first usable fallback-region anchor,
\* or the activity URL itself when there is none.
C3_FallbackOrSelf ==
    (NavigatedOk /\ NoMarkerLinks(dom)) =>
        file_urls = IF UsableFallbackAnchors(dom) = {}
                    THEN <<activity_url>>
                    ELSE <<Resolve(Strip(dom[Min(UsableFallbackAnchors(dom))].attr))>>

\* a placeholder anchor was passed over for a later usable one
C3_Witness ==
    /\ NavigatedOk
    /\ NoMarkerLinks(dom)
    /\ UsableFallbackAnchors(dom) # {}
    /\ \E i \in 1..Len(dom) :
          /\ i < Min(UsableFallbackAnchors(dom))
          /\ dom[i].kind = "a"
          /\ dom[i].attr # None
          /\ \E r \in 1..Len(dom) : dom[r].kind \in RegionKinds /\ IsAncestor(dom, r, i)

\* the regions of the fallback selector, in the order the selector names them
RegionPriority == <<"resourceworkaround", "activityinstance", "region-main">>

\* the usable fallback anchors that stand in a region of kind k
UsableIn(d, k) ==
    { i \in UsableFallbackAnchors(d) :
        \E r \in 1..Len(d) : d[r].kind = k /\ IsAncestor(d, r, i) }

\* the first region of the list that holds a usable anchor
PreferredRegion(d) ==
    RegionPriority[Min({ n \in 1..Len(RegionPriority) : UsableIn(d, RegionPriority[n]) # {} })]

\* C13: when the fallback regions are consulted, the usable anchor of the
\* earliest region of the list (resource workaround, activity instance, main
\* region) is returned, wherever the anchors stand in the document.
C13_RegionOrder ==
    (NavigatedOk /\ NoMarkerLinks(dom) /\ UsableFallbackAnchors(dom) # {}) =>
        file_urls = <<Resolve(Strip(dom[Min(UsableIn(dom, PreferredRegion(dom)))].attr))>>

\* ------------------------------------------------------------------------
\*  Properties of the folder activity
\* ------------------------------------------------------------------------
\* the walk started at root r raises
WalkRaises(d, r) == recurse(d, r, WalkInit).raised

\* the roots of tree t whose walk raises / the marker links below the others
FailingRoots(d, t) ==
    { r \in 1..Len(d) : InSeq(r, TreeRoots(d, t)) /\ WalkRaises(d, r) }

HealthyTreeUrls(d, t) ==
    { Resolve(d[a].attr) : a \in { x \in 1..Len(d) :
          \E r \in 1..Len(d) : /\ InSeq(r, TreeRoots(d, t))
                               /\ ~WalkRaises(d, r)
                               /\ InSeq(x, SelectMarkerAnchors(d, r)) } }

FolderTrees(d) == { t \in 1..Len(d) : d[t].kind = "foldertree" }

\* one tree of the markup has a failing root, another tree has files
OneTreeFails(d) ==
    \E t1, t2 \in FolderTrees(d) :
        /\ t1 # t2
        /\ FailingRoots(d, t1) # {}
        /\ FailingRoots(d, t2) = {}
        /\ HealthyTreeUrls(d, t2) # {}

\* C8: when the walk of one tree root raises, the extraction from the inline
\* markup of a folder activity still returns the URLs of the other trees.
C8_FailingRootIsolated ==
    (act_type = "folder" /\ pc # "markup" /\ OneTreeFails(dom)) =>
        /\ pc = "resolved"
        /\ \A t \in FolderTrees(dom) : \A u \in HealthyTreeUrls(dom, t) : InSeq(u, file_urls)

\* C9: for a folder activity the inline markup is tried first; what it yields
\* is the file list and nothing is opened; only when it yields nothing is the
\* activity URL resolved by collect_activity_files.
C9_InlineFirst ==
    (act_type = "folder" /\ pc = "resolved") =>
        \E inl \in {parse_folder_tree(dom).files} :
            /\ inl # <<>> => /\ file_urls = inl
                             /\ navigations = 0
                             /\ activity_page = <<>>
            /\ inl = <<>> =>
                 \E gotoOk \in BOOLEAN :
                    \E r \in {collect_activity_files(activity_page, activity_url, gotoOk)} :
                       file_urls = r.urls /\ navigations = r.navs

\* inline files were found for an activity whose URL could have been opened
C9_Witness ==
    /\ act_type = "folder"
    /\ pc = "resolved"
    /\ activity_url = ViewUrl
    /\ inline_urls # <<>>
    /\ file_urls = inline_urls
    /\ navigations = 0

\* the markup has one folder tree with one root item
SingleRoot(d) ==
    /\ Len(SelectFolderTrees(d)) = 1
    /\ Len(TreeRoots(d, SelectFolderTrees(d)[1])) = 1

\* C12: the walk started at the one root item of a folder tree descends from
\* an item only into the items of its direct child group, so recurse() is
\* entered at most once for every tree item below the root.
C12_EachItemEnteredOnce ==
    (act_type = "folder" /\ pc = "resolved" /\ activity_page = <<>> /\ SingleRoot(dom)) =>
        NoDuplicates(visits)

\* ------------------------------------------------------------------------
\*  Properties of the assignment metadata
\* ------------------------------------------------------------------------
DateFields == {"start_at", "due_at", "cutoff_at"}

StatusFields ==
    {"attempt", "submission_status", "grading_status", "time_remaining", "last_modified"}

Scanning == a_pc \in {"adates", "daterows", "status", "files", "feedback"}

\* a step of the scan leaves every field of F that is already set as it is
KeepsSetFields(F) ==
    Scanning => \A f \in F : meta[f] # None => meta'[f] = meta[f]

\* C4: every date field and every status field is first-writer-wins: once
\* set during the scan of the page, no later row or block changes it.
C4_FirstWriterWins == [][KeepsSetFields(DateFields \cup StatusFields)]_vars

\* the feedback rows that have both cells and a label with the grade word
GradeRows(page) ==
    { i \in 1..Len(BlocksOf(page, "frow")) :
        /\ BlocksOf(page, "frow")[i].th # None
        /\ BlocksOf(page, "frow")[i].td # None
        /\ \E j \in 1..Len(BlocksOf(page, "frow")[i].th) :
              LowerTok(BlocksOf(page, "frow")[i].th[j]) = "otsinka" }

SlashesOf(g) == { i \in 1..Len(g) : g[i] = "/" }

\* what the grade fields are for the grade text g
GradeOf(g) ==
    IF Cardinality(SlashesOf(g)) = 1
    THEN LET k == CHOOSE i \in SlashesOf(g) : TRUE
         IN [raw |-> _normalize_number(SubSeq(g, 1, k - 1)),
             max |-> _normalize_number(SubSeq(g, k + 1, Len(g)))]
    ELSE [raw |-> None, max |-> None]

AssignParsed == a_pc = "done" /\ meta # <<>>

\* C10: grade_text is the value cell of the first feedback row with the grade
\* label, verbatim; grade_raw and grade_max are set only for exactly two
\* "/"-separated parts, each side parsed on its own (None for a side that
\* does not parse); otherwise both stay None.
C10_GradeParsing ==
    AssignParsed =>
        IF GradeRows(apage) = {}
        THEN meta.grade_text = None /\ meta.grade_raw = None /\ meta.grade_max = None
        ELSE \E g \in {BlocksOf(apage, "frow")[Min(GradeRows(apage))].td} :
                /\ meta.grade_text = g
                /\ meta.grade_raw = GradeOf(g).raw
                /\ meta.grade_max = GradeOf(g).max
                /\ g = <<"7", ",", "0", "0", " ", "/", " ", "1", "0", ",", "0", "0">>
                      => (meta.grade_raw = Float(7000) /\ meta.grade_max = Float(10000))
                /\ g = <<"P">> => (meta.grade_raw = None /\ meta.grade_max = None)
                /\ g = <<"P", " ", "/", " ", "1", ",", "5">>
                      => (meta.grade_raw = None /\ meta.grade_max = Float(1500))
                /\ g = <<"1", "/", "2", "/", "3">>
                      => (meta.grade_raw = None /\ meta.grade_max = None)

\* the grade row came after a row without the label, and one side of its
\* text did not parse while the other did
C10_Witness ==
    /\ AssignParsed
    /\ GradeRows(apage) # {}
    /\ Min(GradeRows(apage)) > 1
    /\ meta.grade_raw = None
    /\ meta.grade_max # None

\* ------------------------------------------------------------------------
\*  Properties of the downloads
\* ------------------------------------------------------------------------
\* the name download_file asked make_unique_path about
CandidateOf(w) ==
    safe_name(fix_encoding(
        IF filename_from_content_disposition(w.cd) # None
        THEN filename_from_content_disposition(w.cd)
        ELSE extract_filename_from_url(dl_urls[w.k])))

\* name with _i put before its extension
WithNumber(name, i) ==
    LET dots == { d \in 2..(Len(name) - 1) : name[d] = "." }
        cut  == IF dots = {} THEN Len(name) + 1 ELSE CHOOSE d \in dots : \A e \in dots : e <= d
    IN SubSeq(name, 1, cut - 1) \o <<"_">> \o IntChars(i) \o SubSeq(name, cut, Len(name))

\* C5: make_unique_path gives the candidate when no file of that name
\* exists, else the candidate numbered with the smallest i >= 2 that is free;
\* so no download writes to a path that existed and the returned paths are
\* pairwise distinct.
C5_UniquePaths ==
    /\ \A n \in 1..Len(written) :
          \E w \in {written[n]} : \E c \in {CandidateOf(w)} :
             /\ w.path \notin w.before
             /\ c \notin w.before => w.path = c
             /\ c \in w.before =>
                   \E i \in 2..(Cardinality(w.before) + 2) :
                      /\ w.path = WithNumber(c, i)
                      /\ \A j \in 2..(i - 1) : WithNumber(c, j) \in w.before
    /\ NoDuplicates(downloaded_paths)

\* a download found both its name and the name numbered 2 taken
C5_Witness ==
    \E n \in 1..Len(written) :
        /\ CandidateOf(written[n]) \in written[n].before
        /\ WithNumber(CandidateOf(written[n]), 2) \in written[n].before
        /\ written[n].path = WithNumber(CandidateOf(written[n]), 3)
        /\ Len(downloaded_paths) >= 2

\* C6: every URL of the input list is attempted exactly once, in input
\* order, whatever happened to earlier URLs; no exception leaves the call and
\* the result holds the paths of the successful fetches in input order.
C6_EveryUrlAttempted ==
    dl_pc \in {"done", "raised"} =>
        /\ dl_pc = "done"
        /\ attempted = [i \in 1..Len(dl_urls) |-> i]
        /\ \E done \in {SelectSeq(written, LAMBDA w : w.ok)} :
              /\ downloaded_paths = [i \in 1..Len(done) |-> done[i].path]
              /\ \A i, j \in 1..Len(done) : i < j => done[i].k < done[j].k

\* the names open() created for fetches before the n-th that then failed
LeftByFailedFetch(n) ==
    { written[m].path : m \in { x \in 1..(n - 1) : ~written[x].ok } }

\* C14: when download_files_for_activity has returned, every file the call
\* created in the directory is one of the returned paths, and no download
\* was numbered because of a file that a failed fetch had left.
C14_FailedFetchLeavesNoFile ==
    dl_pc = "done" =>
        /\ \A n \in 1..Len(written) : InSeq(written[n].path, downloaded_paths)
        /\ \A n \in 1..Len(written) : CandidateOf(written[n]) \notin LeftByFailedFetch(n)

\* ------------------------------------------------------------------------
\*  Properties of the course walk
\* ------------------------------------------------------------------------
\* the activity lists parse_course_page has recorded so far
RecordedActivityLists ==
    { course_data.sections[s].activities : s \in 1..Len(course_data.sections) }
        \cup {section_obj}

\* the directory name built from the position p of an activity in its list
DirNameOfPosition(acts, p) ==
    IndexedDirName(p, acts[p].name, <<"A", "c", "t", "i", "v", "i", "t", "y">>)

\* C7: every file downloaded for a recorded activity lies in the directory
\* named after the activity's 1-based position in the recorded activities
\* list of its section and its name, also after anchorless elements were
\* skipped in the section.
C7_DirIndexIsRecordedPosition ==
    \A acts \in RecordedActivityLists :
       \A p \in 1..Len(acts) :
          \A k \in 1..Len(acts[p].downloaded_files) :
             acts[p].downloaded_files[k][3] = DirNameOfPosition(acts, p)

\* the elements of section s that parse_course_page records: those with an anchor
RecordedElements(s) ==
    SelectSeq(course_page[s].acts, LAMBDA e : e.anchor)

\* the sections of the page that have a name or a recorded activity, in
\* document order
RetainedSections ==
    SelectSeq([s \in 1..Len(course_page) |-> s],
              LAMBDA s : TextOrEmpty(course_page[s].name) # <<>> \/ RecordedElements(s) # <<>>)

\* C11: in the course record parse_course_page returns, the sections list
\* holds, in document order, exactly the sections of the page that have a
\* non-empty name or a recorded activity; a section is absent if and only
\* if its name is empty and it has no recorded activity.
C11_EmptySectionsPruned ==
    c_pc = "done" =>
       /\ Len(course_data.sections) = Len(RetainedSections)
       /\ \A i \in 1..Len(RetainedSections) :
             LET sec == course_data.sections[i]
                 els == RecordedElements(RetainedSections[i])
             IN /\ sec.name = TextOrEmpty(course_page[RetainedSections[i]].name)
                /\ Len(sec.activities) = Len(els)
                /\ \A p \in 1..Len(els) :
                      /\ sec.activities[p].name = ActivityName(els[p])
                      /\ sec.activities[p].type = ActivityType(els[p].classes)

\* a page whose first section, without a name and with an anchorless element
\* only, was dropped, and whose second section, named and without
\* activities, was kept
C11_Witness ==
    /\ c_pc = "done"
    /\ Len(course_page) = 2
    /\ TextOrEmpty(course_page[1].name) = <<>>
    /\ course_page[1].acts # <<>>
    /\ RecordedElements(1) = <<>>
    /\ TextOrEmpty(course_page[2].name) = <<"T">>
    /\ course_page[2].acts = <<>>
    /\ course_data.sections = << [name |-> <<"T">>, activities |-> <<>>] >>

====
